---- MODULE Spec2Model ----
(***************************************************************************)
(* Model of the reloadable span filter of tracing-filtering-test:          *)
(*   - DynamicFieldFilter (src/main.rs:96-144), the layer whose hooks the  *)
(*     subscriber stack calls under the read guard of reload::Layer;       *)
(*   - handle_tcp_client (src/main.rs:146-177), the control handler that   *)
(*     mutates the layer through reload::Handle::modify (write guard);     *)
(*   - the threads main() starts (src/main.rs:54-66).                      *)
(* Strings are sequences of one-character strings, so that tokenizing and  *)
(* string equality are computed, not assumed.                              *)
(***************************************************************************)
EXTENDS Integers, Sequences, FiniteSets, TLC

\* ---------------------------------------------------------------- bounds
MaxConns == 2
MaxReads == 3

Conns == 1..MaxConns

\* ---------------------------------------------------------------- strings
Whitespace == {" ", "\n", "\t", "\r"}

w_CLEAR == <<"C", "L", "E", "A", "R">>
w_VRF == <<"V", "R", "F">>
vrf_id == <<"v", "r", "f", "_", "i", "d">>
prefix == <<"p", "r", "e", "f", "i", "x">>

\* String::from_utf8_lossy: an invalid byte becomes U+FFFD, the rest is kept.
from_utf8_lossy(bytes) ==
  [i \in 1..Len(bytes) |-> IF bytes[i] = "xFF" THEN "uFFFD" ELSE bytes[i]]

\* str::split_whitespace: the maximal runs of non-whitespace characters.
RECURSIVE split_from(_, _, _, _)
split_from(s, i, cur, acc) ==
  IF i > Len(s)
    THEN IF cur = <<>> THEN acc ELSE Append(acc, cur)
    ELSE IF s[i] \in Whitespace
      THEN split_from(s, i + 1, <<>>, IF cur = <<>> THEN acc ELSE Append(acc, cur))
      ELSE split_from(s, i + 1, Append(cur, s[i]), acc)

split_whitespace(s) == split_from(s, 1, <<>>, <<>>)

\* The byte strings one read() of the control stream may return.
ReadBufs ==
  { <<>>,
    <<"\n">>,
    <<"C", "L", "E", "A", "R", "\n">>,
    <<" ", "C", "L", "E", "A", "R">>,
    <<"c", "l", "e", "a", "r">>,
    <<"xFF", "C", "L", "E", "A", "R">>,
    <<"V", "R", "F", "\n">>,
    <<"V", "R", "F", " ", "1", "\n">>,
    <<"V", "R", "F", "\t", "2", "\n", "C", "L", "E", "A", "R", "\n">>,
    <<"V", "R", "F", " ", "1", " ", "C", "L", "E", "A", "R">>,
    <<"F", "O", "O", " ", "1">> }

\* ---------------------------------------------------------------- filters
\* Variant: the layer starts with the rule vrf_id = "1".
EmptyMap_preset == [f \in {vrf_id} |-> <<"1">>]

\* HashMap<String, String>: a function whose domain is the set of keys.
EmptyMap == [k \in {} |-> <<>>]

\* Variant: clear that leaves the entries in place.
filters_clear_keep(m) == m

filters_clear(m) == EmptyMap

\* Variant: insert that keeps the value of a key already present.
filters_insert_keep(m, k, v) ==
  [f \in DOMAIN m \cup {k} |-> IF f \in DOMAIN m THEN m[f] ELSE v]

filters_insert(m, k, v) ==
  [f \in DOMAIN m \cup {k} |-> IF f = k THEN v ELSE m[f]]

\* ---------------------------------------------------------------- matching
\* A value set is a sequence of fields [name, kind, value]; kind "str" is
\* recorded through record_str, every other kind through record_debug.
\* Variant: a field recorded through record_debug is compared by its
\* rendering, as record_str compares a string.
record_debug_rendered(visitor, field, value) ==
  IF field = visitor.field /\ value = visitor.value
    THEN [visitor EXCEPT !.matched = TRUE]
    ELSE visitor

record_debug(visitor, field, value) == visitor

record_str(visitor, field, value) ==
  IF field = visitor.field /\ value = visitor.value
    THEN [visitor EXCEPT !.matched = TRUE]
    ELSE visitor

RECURSIVE record(_, _, _)
record(valueset, i, visitor) ==
  IF i > Len(valueset) THEN visitor
  ELSE record(valueset, i + 1,
              IF valueset[i].kind = "str"
                THEN record_str(visitor, valueset[i].name, valueset[i].value)
                ELSE record_debug(visitor, valueset[i].name, valueset[i].value))

value_in_valueset(valueset, field, value) ==
  record(valueset, 1, [field |-> field, value |-> value, matched |-> FALSE]).matched

\* The value sets a new span may carry.
AttrSets ==
  { <<>>,
    <<[name |-> vrf_id, kind |-> "str", value |-> <<"1">>]>>,
    <<[name |-> vrf_id, kind |-> "debug", value |-> <<"1">>]>>,
    <<[name |-> prefix, kind |-> "str", value |-> <<"1">>],
      [name |-> vrf_id, kind |-> "str", value |-> <<"2">>]>> }

\* ---------------------------------------------------------------- hooks
\* Layer::enabled: what the hook does for the current span of the calling
\* thread (hasCurrent = lookup_current() is Some, currentDisabled = that
\* span carries SpanExtDisable).  The first statement aborts the hook.
enabled(hasCurrent, currentDisabled) ==
  LET aborts == TRUE
  IN IF aborts
       THEN [panic |-> TRUE, result |-> FALSE]
       ELSE [panic |-> FALSE,
             result |-> IF hasCurrent THEN ~currentDisabled ELSE TRUE]

\* Layer::on_new_span: insert = the hook attaches SpanExtDisable to the new
\* span.  The first statement aborts the hook.
on_new_span(self_filters, attrs, hasParent, parentDisabled) ==
  LET aborts == TRUE
  IN IF aborts
       THEN [panic |-> TRUE, insert |-> FALSE]
       ELSE IF hasParent /\ parentDisabled
         THEN [panic |-> FALSE, insert |-> TRUE]
         ELSE [panic |-> FALSE,
               insert |-> \E f \in DOMAIN self_filters :
                             value_in_valueset(attrs, f, self_filters[f])]

\* ---------------------------------------------------------------- state
MaxSpans == 2

\* No call of value_in_valueset in progress.
NoVisit ==
  [valueset |-> <<>>, field |-> <<>>, value |-> <<>>, done |-> FALSE,
   matched |-> FALSE]

VARIABLES
  filters,    \* DynamicFieldFilter.filters behind the reload lock
  lock,       \* the RwLock of reload::Layer: writer, readers, poisoned
  pc,         \* position of the threads "main", "listener" and "bgp"
  panicMsg,   \* the message a thread panicked with ("" while it runs)
  conn,       \* control connections: "idle", "queued", "reading", "closed"
  backlog,    \* connections waiting in listener.incoming()
  cur,        \* the connection handle_tcp_client is serving (0: none)
  words,      \* the tokens of the read being dispatched (<<>> between
              \* two iterations of the handler's loop)
  nreads,     \* number of successful reads so far
  spans,      \* the span registry: parent, attrs, disabled; and, as
              \* history, seen = filters when the hook was entered
  hookSpan,   \* the span the hook the bgp thread is in was called for
  allowed,    \* history: the last enabled call, its span and its result
  applied,    \* history: the mutations whose modify has returned
  ignored,    \* history: the last read that dispatched no command, its
              \* connection and the number of mutations applied before it
  eof,        \* the connections whose peer has closed (a read returned 0)
  visit       \* a call of value_in_valueset: its arguments and its result

vars == <<filters, lock, pc, panicMsg, conn, backlog, cur, words, nreads,
          spans, hookSpan, allowed, applied, ignored, eof, visit>>

\* The state main() leaves behind, before any thread has made a step.
Started ==
  /\ filters = EmptyMap
  /\ lock = [writer |-> "none", readers |-> {}, poisoned |-> FALSE]
  /\ pc = [main |-> "rib_run", listener |-> "accept", bgp |-> "recv"]
  /\ panicMsg = [main |-> "", listener |-> "", bgp |-> ""]
  /\ conn = [c \in Conns |-> "idle"]
  /\ backlog = <<>>
  /\ cur = 0
  /\ words = <<>>
  /\ nreads = 0
  /\ spans = <<>>
  /\ hookSpan = 0
  /\ allowed = [span |-> 0, result |-> "none"]
  /\ applied = <<>>
  /\ ignored = [conn |-> 0, after |-> 0]
  /\ eof = {}

Init ==
  /\ Started
  /\ visit = NoVisit

\* The process lives until the main thread panics.
Alive == pc.main = "rib_run"

\* ---------------------------------------------------------------- clients
\* A client connects; the connection waits until the listener accepts it.
\* Connections are numbered in the order in which they connect.
Connect(c) ==
  /\ Alive
  /\ conn[c] = "idle"
  /\ \A b \in 1..(c - 1) : conn[b] # "idle"
  /\ conn' = [conn EXCEPT ![c] = "queued"]
  /\ backlog' = Append(backlog, c)
  /\ UNCHANGED <<filters, lock, pc, panicMsg, cur, words, nreads, spans,
                 hookSpan, allowed, applied, ignored, eof, visit>>

\* ---------------------------------------------------------------- listener
\* listener.incoming() yields the next stream and the listener thread itself
\* runs handle_tcp_client on it.
Accept ==
  /\ Alive
  /\ pc.listener = "accept"
  /\ backlog # <<>>
  /\ cur' = Head(backlog)
  /\ backlog' = Tail(backlog)
  /\ conn' = [conn EXCEPT ![Head(backlog)] = "reading"]
  /\ pc' = [pc EXCEPT !.listener = "read"]
  /\ UNCHANGED <<filters, lock, panicMsg, words, nreads, spans, hookSpan,
                 allowed, applied, ignored, eof, visit>>

\* Variant: every first word other than VRF is taken for CLEAR.
ReadOk_any(buf) ==
  /\ Alive
  /\ pc.listener = "read"
  /\ nreads < MaxReads
  /\ cur \in eof => buf = <<>>
  /\ eof' = IF buf = <<>> THEN eof \cup {cur} ELSE eof
  /\ LET ws == split_whitespace(from_utf8_lossy(buf))
     IN /\ words' = IF Len(ws) >= 1 /\ (ws[1] # w_VRF \/ Len(ws) >= 2)
                       THEN ws ELSE <<>>
        /\ pc' = [pc EXCEPT !.listener =
                    IF Len(ws) >= 2 /\ ws[1] = w_VRF THEN "vrf_acquire"
                    ELSE IF Len(ws) >= 1 /\ ws[1] # w_VRF THEN "clear_acquire"
                    ELSE "read"]
        /\ ignored' = IF Len(ws) >= 1 /\ (ws[1] # w_VRF \/ Len(ws) >= 2)
                         THEN ignored
                         ELSE [conn |-> cur, after |-> Len(applied)]
  /\ nreads' = nreads + 1
  /\ UNCHANGED <<filters, lock, panicMsg, conn, backlog, cur, spans,
                 hookSpan, allowed, applied, visit>>

\* Variant: a CLEAR at the end of the read is dispatched, whatever the
\* first word is.
ReadOk_last(buf) ==
  /\ Alive
  /\ pc.listener = "read"
  /\ nreads < MaxReads
  /\ cur \in eof => buf = <<>>
  /\ eof' = IF buf = <<>> THEN eof \cup {cur} ELSE eof
  /\ LET ws == split_whitespace(from_utf8_lossy(buf))
     IN /\ words' = IF (Len(ws) >= 1 /\ ws[1] = w_CLEAR)
                          \/ (Len(ws) >= 2 /\ ws[1] = w_VRF)
                       THEN ws ELSE <<>>
        /\ pc' = [pc EXCEPT !.listener =
                    IF Len(ws) >= 1 /\ ws[Len(ws)] = w_CLEAR THEN "clear_acquire"
                    ELSE IF Len(ws) >= 2 /\ ws[1] = w_VRF THEN "vrf_acquire"
                    ELSE "read"]
        /\ ignored' = IF (Len(ws) >= 1 /\ ws[1] = w_CLEAR)
                          \/ (Len(ws) >= 2 /\ ws[1] = w_VRF)
                         THEN ignored
                         ELSE [conn |-> cur, after |-> Len(applied)]
  /\ nreads' = nreads + 1
  /\ UNCHANGED <<filters, lock, panicMsg, conn, backlog, cur, spans,
                 hookSpan, allowed, applied, visit>>

\* stream.read returns Ok(n): decode, tokenize, match on the first word.
\* Ok(0) is what read returns once the peer has closed, then and ever after.
ReadOk(buf) ==
  /\ Alive
  /\ pc.listener = "read"
  /\ nreads < MaxReads
  /\ cur \in eof => buf = <<>>
  /\ eof' = IF buf = <<>> THEN eof \cup {cur} ELSE eof
  /\ LET ws == split_whitespace(from_utf8_lossy(buf))
     IN /\ words' = IF (Len(ws) >= 1 /\ ws[1] = w_CLEAR)
                          \/ (Len(ws) >= 2 /\ ws[1] = w_VRF)
                       THEN ws ELSE <<>>
        /\ pc' = [pc EXCEPT !.listener =
                    IF Len(ws) >= 1 /\ ws[1] = w_CLEAR THEN "clear_acquire"
                    ELSE IF Len(ws) >= 2 /\ ws[1] = w_VRF THEN "vrf_acquire"
                    ELSE "read"]
        /\ ignored' = IF (Len(ws) >= 1 /\ ws[1] = w_CLEAR)
                          \/ (Len(ws) >= 2 /\ ws[1] = w_VRF)
                         THEN ignored
                         ELSE [conn |-> cur, after |-> Len(applied)]
  /\ nreads' = nreads + 1
  /\ UNCHANGED <<filters, lock, panicMsg, conn, backlog, cur, spans,
                 hookSpan, allowed, applied, visit>>

\* Variant: the write guard is taken without waiting for the readers.
AcquireWrite_shared ==
  /\ Alive
  /\ pc.listener \in {"clear_acquire", "vrf_acquire"}
  /\ lock.writer = "none"
  /\ ~lock.poisoned
  /\ pc' = [pc EXCEPT !.listener =
              IF pc.listener = "clear_acquire" THEN "clear_locked"
                                               ELSE "vrf_locked"]
  /\ lock' = [lock EXCEPT !.writer = "listener"]
  /\ UNCHANGED <<filters, panicMsg, conn, backlog, cur, words, nreads, spans,
                 hookSpan, allowed, applied, ignored, eof, visit>>

\* Handle::modify takes the write guard; a poisoned lock makes modify return
\* Err, which the handler unwraps.
AcquireWrite ==
  /\ Alive
  /\ pc.listener \in {"clear_acquire", "vrf_acquire"}
  /\ lock.writer = "none"
  /\ lock.readers = {}
  /\ IF lock.poisoned
       THEN /\ pc' = [pc EXCEPT !.listener = "panicked"]
            /\ panicMsg' = [panicMsg EXCEPT !.listener = "unwrap"]
            /\ conn' = [conn EXCEPT ![cur] = "closed"]
            /\ lock' = lock
       ELSE /\ pc' = [pc EXCEPT !.listener =
                        IF pc.listener = "clear_acquire"
                          THEN "clear_locked" ELSE "vrf_locked"]
            /\ lock' = [lock EXCEPT !.writer = "listener"]
            /\ UNCHANGED <<panicMsg, conn>>
  /\ UNCHANGED <<filters, backlog, cur, words, nreads, spans, hookSpan,
                 allowed, applied, ignored, eof, visit>>

\* Variant: the write guard outlives the call of modify.
ClearClosure_hold ==
  /\ Alive
  /\ pc.listener = "clear_locked"
  /\ filters' = filters_clear(filters)
  /\ words' = <<>>
  /\ pc' = [pc EXCEPT !.listener = "read"]
  /\ applied' = Append(applied, [conn |-> cur, op |-> "clear", value |-> <<>>])
  /\ UNCHANGED <<lock, panicMsg, conn, backlog, cur, nreads, spans,
                 hookSpan, allowed, ignored, eof, visit>>

\* The CLEAR closure, then modify drops the guard and returns Ok.
ClearClosure ==
  /\ Alive
  /\ pc.listener = "clear_locked"
  /\ filters' = filters_clear(filters)
  /\ lock' = [lock EXCEPT !.writer = "none"]
  /\ words' = <<>>
  /\ pc' = [pc EXCEPT !.listener = "read"]
  /\ applied' = Append(applied, [conn |-> cur, op |-> "clear", value |-> <<>>])
  /\ UNCHANGED <<panicMsg, conn, backlog, cur, nreads, spans,
                 hookSpan, allowed, ignored, eof, visit>>

\* Variant: the new rule is applied to the spans that already exist.
VrfClosure_retroactive ==
  /\ Alive
  /\ pc.listener = "vrf_locked"
  /\ filters' = filters_insert(filters, vrf_id, words[2])
  /\ spans' = [i \in 1..Len(spans) |->
                [spans[i] EXCEPT !.disabled =
                   @ \/ value_in_valueset(spans[i].attrs, vrf_id, words[2])]]
  /\ lock' = [lock EXCEPT !.writer = "none"]
  /\ words' = <<>>
  /\ pc' = [pc EXCEPT !.listener = "read"]
  /\ applied' = Append(applied, [conn |-> cur, op |-> "set", value |-> words[2]])
  /\ UNCHANGED <<panicMsg, conn, backlog, cur, nreads, hookSpan,
                 allowed, ignored, eof, visit>>

\* Variant: the rule is inserted under the command's value as its key.
VrfClosure_keyed ==
  /\ Alive
  /\ pc.listener = "vrf_locked"
  /\ filters' = filters_insert(filters, words[2], words[2])
  /\ lock' = [lock EXCEPT !.writer = "none"]
  /\ words' = <<>>
  /\ pc' = [pc EXCEPT !.listener = "read"]
  /\ applied' = Append(applied, [conn |-> cur, op |-> "set", value |-> words[2]])
  /\ UNCHANGED <<panicMsg, conn, backlog, cur, nreads, spans,
                 hookSpan, allowed, ignored, eof, visit>>

\* The VRF closure when the subscriber stack filters the error! event out
\* before it reaches the layer: insert, drop the guard, return Ok.
VrfClosure ==
  /\ Alive
  /\ pc.listener = "vrf_locked"
  /\ filters' = filters_insert(filters, vrf_id, words[2])
  /\ lock' = [lock EXCEPT !.writer = "none"]
  /\ words' = <<>>
  /\ pc' = [pc EXCEPT !.listener = "read"]
  /\ applied' = Append(applied, [conn |-> cur, op |-> "set", value |-> words[2]])
  /\ UNCHANGED <<panicMsg, conn, backlog, cur, nreads, spans,
                 hookSpan, allowed, ignored, eof, visit>>

\* The VRF closure when the error! event is dispatched: the thread asks for
\* the read guard of the lock it holds for writing.  RwLock::read then
\* either blocks for ever ...
VrfClosureDeadlock ==
  /\ Alive
  /\ pc.listener = "vrf_locked"
  /\ pc' = [pc EXCEPT !.listener = "deadlocked"]
  /\ UNCHANGED <<filters, lock, panicMsg, conn, backlog, cur, words, nreads,
                 spans, hookSpan, allowed, applied, ignored, eof, visit>>

\* ... or panics; the unwinding write guard poisons the lock and the stream
\* is dropped.
VrfClosurePanic ==
  /\ Alive
  /\ pc.listener = "vrf_locked"
  /\ pc' = [pc EXCEPT !.listener = "panicked"]
  /\ panicMsg' = [panicMsg EXCEPT !.listener = "rwlock"]
  /\ lock' = [lock EXCEPT !.writer = "none", !.poisoned = TRUE]
  /\ conn' = [conn EXCEPT ![cur] = "closed"]
  /\ UNCHANGED <<filters, backlog, cur, words, nreads, spans, hookSpan,
                 allowed, applied, ignored, eof, visit>>

\* stream.read returns Err: warn!, then return to the accept loop.  When the
\* warn! event is dispatched the layer's enabled hook runs on this thread.
ReadErr(dispatched) ==
  /\ Alive
  /\ pc.listener = "read"
  /\ conn' = [conn EXCEPT ![cur] = "closed"]
  /\ IF dispatched /\ enabled(FALSE, FALSE).panic
       THEN /\ pc' = [pc EXCEPT !.listener = "panicked"]
            /\ panicMsg' = [panicMsg EXCEPT !.listener = "enabled"]
            /\ allowed' = [span |-> 0, result |-> "panic"]
            /\ cur' = cur
       ELSE /\ pc' = [pc EXCEPT !.listener = "accept"]
            /\ cur' = 0
            /\ UNCHANGED <<panicMsg, allowed>>
  /\ UNCHANGED <<filters, lock, backlog, words, nreads, spans, hookSpan,
                 applied, ignored, eof, visit>>

\* ---------------------------------------------------------------- workload
\* The bgp thread creates a span: the registry stores it, then the layer's
\* on_new_span is entered under the read guard.
NewSpan(parent, attrs) ==
  /\ Alive
  /\ pc.bgp = "recv"
  /\ Len(spans) < MaxSpans
  /\ lock.writer = "none"
  /\ IF lock.poisoned
       THEN /\ pc' = [pc EXCEPT !.bgp = "panicked"]
            /\ panicMsg' = [panicMsg EXCEPT !.bgp = "lock poisoned"]
            /\ UNCHANGED <<lock, spans, hookSpan>>
       ELSE /\ spans' = Append(spans, [parent |-> parent, attrs |-> attrs,
                                       disabled |-> FALSE, seen |-> filters])
            /\ hookSpan' = Len(spans) + 1
            /\ lock' = [lock EXCEPT !.readers = @ \cup {"bgp"}]
            /\ pc' = [pc EXCEPT !.bgp = "on_new_span"]
            /\ panicMsg' = panicMsg
  /\ UNCHANGED <<filters, conn, backlog, cur, words, nreads, allowed,
                 applied, ignored, eof, visit>>

\* The body of on_new_span for the span just stored.
OnNewSpan ==
  /\ Alive
  /\ pc.bgp = "on_new_span"
  /\ LET s == spans[hookSpan]
         r == on_new_span(filters, s.attrs, s.parent # 0,
                          IF s.parent # 0 THEN spans[s.parent].disabled
                                          ELSE FALSE)
     IN /\ spans' = [spans EXCEPT ![hookSpan].disabled = r.insert]
        /\ pc' = [pc EXCEPT !.bgp = IF r.panic THEN "panicked" ELSE "recv"]
        /\ panicMsg' = [panicMsg EXCEPT !.bgp =
                          IF r.panic THEN "on_new_span" ELSE @]
  /\ lock' = [lock EXCEPT !.readers = @ \ {"bgp"}]
  /\ hookSpan' = 0
  /\ UNCHANGED <<filters, conn, backlog, cur, words, nreads, allowed,
                 applied, ignored, eof, visit>>

\* The bgp thread emits an event while `current` is its active span (0:
\* none): the layer's enabled is entered under the read guard.
EmitEvent(current) ==
  /\ Alive
  /\ pc.bgp = "recv"
  /\ lock.writer = "none"
  /\ IF lock.poisoned
       THEN /\ pc' = [pc EXCEPT !.bgp = "panicked"]
            /\ panicMsg' = [panicMsg EXCEPT !.bgp = "lock poisoned"]
            /\ UNCHANGED <<lock, hookSpan>>
       ELSE /\ hookSpan' = current
            /\ lock' = [lock EXCEPT !.readers = @ \cup {"bgp"}]
            /\ pc' = [pc EXCEPT !.bgp = "enabled"]
            /\ panicMsg' = panicMsg
  /\ UNCHANGED <<filters, conn, backlog, cur, words, nreads, spans, allowed,
                 applied, ignored, eof, visit>>

\* The body of enabled for the active span.
Enabled ==
  /\ Alive
  /\ pc.bgp = "enabled"
  /\ LET r == enabled(hookSpan # 0,
                      IF hookSpan # 0 THEN spans[hookSpan].disabled ELSE FALSE)
     IN /\ allowed' = [span |-> hookSpan,
                        result |-> IF r.panic THEN "panic"
                                   ELSE IF r.result THEN "true" ELSE "false"]
        /\ pc' = [pc EXCEPT !.bgp = IF r.panic THEN "panicked" ELSE "recv"]
        /\ panicMsg' = [panicMsg EXCEPT !.bgp =
                          IF r.panic THEN "enabled" ELSE @]
  /\ lock' = [lock EXCEPT !.readers = @ \ {"bgp"}]
  /\ hookSpan' = 0
  /\ UNCHANGED <<filters, conn, backlog, cur, words, nreads, spans,
                 applied, ignored, eof, visit>>

\* ---------------------------------------------------------------- main
\* Rib::run unwraps the result of send: once the bgp thread has panicked the
\* receiver is gone, send fails and the main thread panics; the process ends.
RibSendFails ==
  /\ pc.main = "rib_run"
  /\ pc.bgp = "panicked"
  /\ pc' = [pc EXCEPT !.main = "panicked"]
  /\ panicMsg' = [panicMsg EXCEPT !.main = "unwrap"]
  /\ UNCHANGED <<filters, lock, conn, backlog, cur, words, nreads, spans,
                 hookSpan, allowed, applied, ignored, eof, visit>>

Next ==
  \/ \E c \in Conns : Connect(c)
  \/ Accept
  \/ \E buf \in ReadBufs : ReadOk(buf)
  \/ AcquireWrite
  \/ ClearClosure
  \/ VrfClosure
  \/ VrfClosureDeadlock
  \/ VrfClosurePanic
  \/ \E dispatched \in BOOLEAN : ReadErr(dispatched)
  \/ \E parent \in 0..Len(spans), attrs \in AttrSets : NewSpan(parent, attrs)
  \/ OnNewSpan
  \/ \E current \in 0..Len(spans) : EmitEvent(current)
  \/ Enabled
  \/ RibSendFails

Spec == Init /\ [][Next]_vars

\* ------------------------------------------------- value_in_valueset alone
\* The value sets handed to value_in_valueset: up to MaxFields fields, each
\* recorded as a string, through Debug or Display ("debug"), or as a number
\* ("u64", which Visit hands to record_debug); the value is the rendering.
MaxFields == 2

FieldNames == {vrf_id, prefix}

FieldValues == {<<"1">>, <<"7">>}

Recorded == [name : FieldNames, kind : {"str", "debug", "u64"}, value : FieldValues]

ValueSets == UNION {[1..n -> Recorded] : n \in 0..MaxFields}

MatchInit ==
  /\ Started
  /\ visit \in [valueset : ValueSets, field : FieldNames, value : FieldValues,
                 done : {FALSE}, matched : {FALSE}]

\* One call of value_in_valueset on the arguments chosen initially.
Visit ==
  /\ ~visit.done
  /\ visit' = [visit EXCEPT !.done = TRUE, !.matched =
                 value_in_valueset(visit.valueset, visit.field, visit.value)]
  /\ UNCHANGED <<filters, lock, pc, panicMsg, conn, backlog, cur, words, nreads,
                 spans, hookSpan, allowed, applied, ignored, eof>>

MatchNext == Visit

MatchSpec == MatchInit /\ [][MatchNext]_vars

\* ---------------------------------------------------------------- claims
\* The hook called for span i has ended.
HookDone(i) == ~(pc.bgp = "on_new_span" /\ hookSpan = i)

\* Some rule of the snapshot names a string-typed field of attrs whose value
\* is exactly the rule's value.
RuleMatches(snapshot, attrs) ==
  \E f \in DOMAIN snapshot : \E k \in 1..Len(attrs) :
    /\ attrs[k].name = f
    /\ attrs[k].kind = "str"
    /\ attrs[k].value = snapshot[f]

\* The FilterSet that results from applying a log of mutations in order.
RECURSIVE SerialResult(_)
SerialResult(log) ==
  IF log = <<>> THEN EmptyMap
  ELSE LET m == SerialResult(SubSeq(log, 1, Len(log) - 1))
           e == log[Len(log)]
       IN IF e.op = "clear" THEN EmptyMap
          ELSE [f \in DOMAIN m \cup {vrf_id} |->
                  IF f = vrf_id THEN e.value ELSE m[f]]

\* A read that names no command.
Unrecognized(ws) ==
  \/ Len(ws) = 0
  \/ ws[1] \notin {w_CLEAR, w_VRF}
  \/ ws[1] = w_VRF /\ Len(ws) = 1

\* C2: a span that is a root or whose parent is not suppressed is marked
\* suppressed iff the snapshot current at its creation holds a rule that
\* matches one of its string-typed fields.
C2_RuleMatching ==
  \A i \in 1..Len(spans) :
    (HookDone(i) /\ (spans[i].parent = 0 \/ ~spans[spans[i].parent].disabled))
      => (spans[i].disabled <=> RuleMatches(spans[i].seen, spans[i].attrs))

\* C3: once the hook for a span has ended, no step (command, span creation,
\* emission query, connection event) changes that span's suppressed flag.
C3_DecideOnce ==
  [][\A i \in 1..Len(spans) :
       HookDone(i) => spans'[i].disabled = spans[i].disabled]_vars

\* C3 witness: a VRF command was applied after a span was created whose
\* string field the new rule matches, and the span is still unsuppressed.
C3_Witness ==
  \E i \in 1..Len(spans) :
    /\ HookDone(i)
    /\ filters # spans[i].seen
    /\ applied # <<>>
    /\ applied[Len(applied)].op = "set"
    /\ RuleMatches(filters, spans[i].attrs)
    /\ ~spans[i].disabled

\* C4: while a span evaluation holds the read guard no mutation holds the
\* write guard, and the filters it can read stay the one snapshot it saw on
\* entry, which is the published result of the mutations applied so far.
C4_AtomicSnapshots ==
  pc.bgp = "on_new_span" =>
    /\ lock.writer = "none"
    /\ filters = spans[hookSpan].seen
    /\ filters = SerialResult(applied)

\* C4 witness: a span evaluation is running under a non-empty snapshot while
\* a mutation waits for the write guard.
C4_Witness ==
  /\ pc.bgp = "on_new_span"
  /\ pc.listener \in {"clear_acquire", "vrf_acquire"}
  /\ filters # EmptyMap

\* C5: mutations are applied one at a time, and whenever no mutation holds
\* the write guard the published FilterSet is the result of applying the
\* completed mutations, of every connection, in the order they completed.
C5_SerializedWriters ==
  /\ (lock.writer # "none") <=>
       (pc.listener \in {"clear_locked", "vrf_locked", "deadlocked"})
  /\ lock.writer = "none" => filters = SerialResult(applied)

\* C5 witness: mutations of two different connections have been applied.
C5_Witness ==
  /\ lock.writer = "none"
  /\ \E i, j \in 1..Len(applied) :
       /\ i < j
       /\ applied[i].conn # applied[j].conn
       /\ applied[i].op = "set"
       /\ applied[j].op = "set"
       /\ applied[i].value # applied[j].value

\* C6: every emission query returns, with false iff the active span is
\* marked suppressed and true otherwise (also with no active span).
C6_EmissionQuery ==
  allowed.result # "none" =>
    allowed.result =
      (IF allowed.span # 0 /\ spans[allowed.span].disabled
         THEN "false" ELSE "true")

\* C7: a root span with the string field vrf_id = "1" whose evaluation has
\* ended is suppressed iff the last mutation published before its creation
\* was `VRF 1`, and a child of a suppressed span is suppressed.
C7_LiveReconfiguration ==
  \A i \in 1..Len(spans) :
    HookDone(i) =>
      /\ (spans[i].parent = 0
          /\ \E k \in 1..Len(spans[i].attrs) :
               spans[i].attrs[k] =
                 [name |-> vrf_id, kind |-> "str", value |-> <<"1">>])
         => (spans[i].disabled <=>
               spans[i].seen = SerialResult(<<[op |-> "set", value |-> <<"1">>]>>))
      /\ (spans[i].parent # 0 /\ spans[spans[i].parent].disabled)
         => spans[i].disabled

\* C8: once the handler has stopped working on a read `VRF t` (the closure
\* has returned, or the thread can make no further step in it), the
\* FilterSet holds exactly the rule vrf_id = t, until the next mutation.
C8_VrfCommand ==
  /\ (applied # <<>> /\ applied[Len(applied)].op = "set")
       => filters = [f \in {vrf_id} |-> applied[Len(applied)].value]
  /\ (/\ Len(words) >= 2
      /\ words[1] = w_VRF
      /\ pc.listener \notin {"vrf_acquire", "vrf_locked"})
       => filters = [f \in {vrf_id} |-> words[2]]

\* C9: after every applied CLEAR the FilterSet is empty until the next
\* mutation, whatever it was before, and a CLEAR being dispatched does not
\* fail: the handler is on its way through modify and the lock is not
\* poisoned, so modify returns Ok.
C9_ClearIdempotent ==
  /\ (applied # <<>> /\ applied[Len(applied)].op = "clear")
       => filters = EmptyMap
  /\ (Len(words) >= 1 /\ words[1] = w_CLEAR)
       => /\ pc.listener \in {"clear_acquire", "clear_locked"}
          /\ ~lock.poisoned

\* C9 witness: a rule was set, then two CLEAR reads in a row were applied.
C9_Witness ==
  /\ pc.listener = "read"
  /\ filters = EmptyMap
  /\ Len(applied) >= 3
  /\ LET n == Len(applied)
     IN /\ applied[n - 2].op = "set"
        /\ applied[n - 1].op = "clear"
        /\ applied[n].op = "clear"
        /\ applied[n].conn = applied[n - 1].conn
        /\ nreads = 3

\* C10: a successful read that names no command changes neither the
\* FilterSet nor the lock, reports no error, and leaves the handler reading
\* the same connection.
C10_UnrecognizedNoOp ==
  [][(nreads' = nreads + 1 /\ Unrecognized(words'))
       => /\ filters' = filters
          /\ lock' = lock
          /\ applied' = applied
          /\ panicMsg' = panicMsg
          /\ pc' = pc
          /\ pc'.listener = "read"
          /\ cur' = cur
          /\ conn' = conn
          /\ conn'[cur'] = "reading"]_vars

\* C10 witness: after a read that named no command, a later command on the
\* same connection was applied.
C10_Witness ==
  /\ ignored.conn # 0
  /\ \E k \in 1..Len(applied) :
       /\ applied[k].conn = ignored.conn
       /\ k > ignored.after

\* C11: a connection whose peer has closed (a read returned 0 bytes) or
\* whose read failed is Closed once the handler has dealt with that read,
\* and a Closed connection is served no more: it is not the connection of a
\* running handler, so it is neither read again nor the source of a mutation.
C11_ConnectionTermination ==
  /\ \A c \in eof : conn[c] = "closed"
  /\ \A c \in Conns :
       conn[c] = "closed" => (cur # c \/ pc.listener = "panicked")

\* C12: the listener accepts a new connection without waiting for an
\* accepted connection to close: whenever a connection waits to be accepted
\* while another is in Reading with its handler at the blocking read, the
\* accept can take place.
C12_ConcurrentConnections ==
  (/\ backlog # <<>>
   /\ pc.listener = "read"
   /\ \E c \in Conns : conn[c] = "reading"
   /\ Alive)
    => ENABLED Accept

\* C13: a mutation that cannot be published does not end the thread that
\* dispatched it (the handler gets an error value and goes on, so the
\* listener thread never dies of a panic raised in or by modify), and it
\* leaves the FilterSet as the applied mutations made it.
C13_UnpublishableMutation ==
  /\ panicMsg.listener \notin {"unwrap", "rwlock"}
  /\ filters = SerialResult(applied)

\* C14: a read error on a connection closes that connection and nothing
\* else: the FilterSet, every other connection and the connections waiting
\* are as before, the workload thread is where it was, and the listener is
\* back at accept.
C14_IoErrorIsolation ==
  [][(/\ pc.listener = "read"
      /\ conn[cur] = "reading"
      /\ conn'[cur] = "closed")
       => /\ filters' = filters
          /\ \A c \in Conns \ {cur} : conn'[c] = conn[c]
          /\ backlog' = backlog
          /\ pc'.bgp = pc.bgp
          /\ pc'.listener = "accept"]_vars

\* C15: value_in_valueset answers TRUE only if the value set holds a
\* string-typed field with the rule's name and value; a field recorded as a
\* number or through Display or Debug never makes a rule match, whatever its
\* rendering: the answer is then FALSE.
C15_TypeExactMatching ==
  (visit.done /\ visit.matched)
    => \E k \in 1..Len(visit.valueset) :
         /\ visit.valueset[k].kind = "str"
         /\ visit.valueset[k].name = visit.field
         /\ visit.valueset[k].value = visit.value

\* C15 witness: the rule vrf_id = "7" was looked up in a value set whose
\* only vrf_id field is the number 7, and the answer was FALSE.
C15_Witness ==
  /\ visit.done
  /\ ~visit.matched
  /\ visit.field = vrf_id
  /\ visit.value = <<"7">>
  /\ \E k \in 1..Len(visit.valueset) :
       /\ visit.valueset[k].name = vrf_id
       /\ visit.valueset[k].kind = "u64"
       /\ visit.valueset[k].value = <<"7">>
  /\ \A k \in 1..Len(visit.valueset) : visit.valueset[k].kind # "str"

\* C16: the FilterSet is empty at start and only an applied CLEAR or VRF
\* changes it: a step that changes it is the closure of a dispatched
\* command.  So as long as no command has been applied the FilterSet is
\* empty and no span is suppressed.
C16_OnlyCommandsChange ==
  /\ DOMAIN filters = {}
  /\ [][/\ filters' # filters
            => /\ pc.listener \in {"clear_locked", "vrf_locked"}
               /\ Len(applied') = Len(applied) + 1
        /\ applied' = <<>>
            => /\ DOMAIN filters' = {}
               /\ \A i \in 1..Len(spans') : ~spans'[i].disabled]_vars

\* C16 witness: no command was applied, though a connection was accepted,
\* a read that named no command was handled and a read failed; a root span
\* with the string field vrf_id = "1" was created and is unsuppressed.
C16_Witness ==
  /\ applied = <<>>
  /\ DOMAIN filters = {}
  /\ ignored.conn # 0
  /\ \E c \in Conns : conn[c] = "closed"
  /\ \E i \in 1..Len(spans) :
       /\ HookDone(i)
       /\ spans[i].parent = 0
       /\ spans[i].attrs = <<[name |-> vrf_id, kind |-> "str", value |-> <<"1">>]>>
       /\ ~spans[i].disabled

\* C17: a read dispatches at most one command, the one its first token
\* names (with the second token as the value of VRF): the step that applies
\* a mutation applies exactly one, it is that command, and the handler is
\* then back at the read with the remaining tokens dropped; no more
\* mutations are applied than reads were made.
C17_OneCommandPerRead ==
  [][/\ applied' # applied
          => /\ Len(applied') = Len(applied) + 1
             /\ SubSeq(applied', 1, Len(applied)) = applied
             /\ words # <<>>
             /\ words[1] \in {w_CLEAR, w_VRF}
             /\ applied'[Len(applied')].op =
                  (IF words[1] = w_CLEAR THEN "clear" ELSE "set")
             /\ words[1] = w_VRF => applied'[Len(applied')].value = words[2]
             /\ words' = <<>>
             /\ pc'.listener = "read"
     /\ Len(applied') <= nreads']_vars

\* C17 witness: the one read `VRF 2 CLEAR` (the only buffer of ReadBufs
\* with the value 2) was handled to its end: the rule vrf_id = "2" is
\* published and no CLEAR followed.
C17_Witness ==
  /\ nreads = 1
  /\ pc.listener = "read"
  /\ Len(applied) = 1
  /\ applied[1].op = "set"
  /\ applied[1].value = <<"2">>
  /\ filters = [f \in {vrf_id} |-> <<"2">>]

\* C18: no thread waits for input while it holds a guard of the lock: the
\* listener thread at accept or at the handler's read holds neither guard,
\* nor does the workload thread at its receive.  The write guard is held
\* only inside a modify closure (which, for VRF, may never end: C19) and
\* the read guard only inside a hook of the layer; a thread that has
\* panicked holds none.
C18_NoBlockingUnderGuard ==
  /\ pc.listener \in {"accept", "read"} => lock.writer # "listener"
  /\ pc.bgp = "recv" => "bgp" \notin lock.readers
  /\ lock.writer \in {"none", "listener"}
  /\ lock.writer = "listener"
       => pc.listener \in {"clear_locked", "vrf_locked", "deadlocked"}
  /\ lock.readers \subseteq {"bgp"}
  /\ "bgp" \in lock.readers => pc.bgp \in {"on_new_span", "enabled"}

\* C18 witness: the handler is back at its read after an applied mutation,
\* the workload thread is at its receive, and nobody holds a guard.
C18_Witness ==
  /\ pc.listener = "read"
  /\ pc.bgp = "recv"
  /\ applied # <<>>
  /\ spans = <<>>
  /\ lock.writer = "none"
  /\ lock.readers = {}

\* C19: the thread that holds the write guard inside a modify closure does
\* not enter the layer again: the step it takes from there completes the
\* mutation, releases the guard and brings the handler back to its read.
C19_NoSelfDeadlock ==
  [][(/\ pc.listener \in {"clear_locked", "vrf_locked"}
      /\ pc'.listener # pc.listener)
       => /\ pc'.listener = "read"
          /\ lock'.writer = "none"
          /\ ~lock'.poisoned
          /\ Len(applied') = Len(applied) + 1]_vars

\* C20: the published FilterSet is empty or holds exactly one rule, and that
\* rule's field name is vrf_id.
C20_FilterSetShape ==
  \/ DOMAIN filters = {}
  \/ /\ DOMAIN filters = {vrf_id}
     /\ Cardinality(DOMAIN filters) = 1

\* C20 witness: two VRF commands with different values were applied one
\* after the other, and the FilterSet holds the one rule of the second.
C20_Witness ==
  /\ Len(applied) >= 2
  /\ applied[Len(applied)].op = "set"
  /\ applied[Len(applied) - 1].op = "set"
  /\ applied[Len(applied)].value # applied[Len(applied) - 1].value
  /\ pc.listener = "read"
  /\ DOMAIN filters = {vrf_id}
  /\ filters[vrf_id] = applied[Len(applied)].value

====
